---- MODULE Spec2Model ----
(***************************************************************************)
(* State-machine model of usgs/api.py: the credential file ~/.usgs, the    *)
(* session factory, the response classifier and the operations built on    *)
(* them (seven query operations, login, logout).  Each caller is a process *)
(* whose invocation advances through the points where the code touches the *)
(* file system or the network.                                             *)
(***************************************************************************)
EXTENDS Integers, Sequences, FiniteSets, TLC

VARIABLES
    tmpfile,    \* the credential file TMPFILE (~/.usgs), api.py line 15
    now,        \* the wall clock read by datetime.now(), line 154
    pc,         \* pc[p]: where caller p is inside its invocation
    op,         \* op[p]: the operation p invoked
    explicit,   \* explicit[p]: the api_key argument the caller passed (line 56)
    save,       \* save[p]: login's save argument (line 139)
    api_key,    \* api_key[p]: the local api_key after the operation's own _get_api_key
    session,    \* session[p]: the session _create_session returned (line 59)
    created,    \* created[p]: login's local `created` (line 154)
    response,   \* response[p]: <<r.json()>> once the service has answered, else <<>>
    result,     \* result[p]: what the invocation returned or raised
    before,     \* before[p]: the credential file as it was when p was invoked
    consulted,  \* consulted[p]: whether this invocation opened the credential file
    sessions,   \* sessions[p]: sessions created by this invocation
    posts,      \* posts[p]: session.post calls made by this invocation (line 62)
    request,    \* request[p]: the request the invocation last posted
    attempts,   \* attempts[p]: transport attempts made by the current post (lines 51-52)
    issued      \* the key login stored in the credential file, as issued by the
                \* service, and whether the service has deactivated it since

vars == <<tmpfile, now, pc, op, explicit, save, api_key, session, created,
          response, result, before, consulted, sessions, posts, request,
          attempts, issued>>

----------------------------------------------------------------------------
(* Bounds *)

NumProcs == 2
MaxTime == 1

Procs == 1..NumProcs

----------------------------------------------------------------------------
(* Python values *)

\* Python's None / JSON null, distinct from every string.
None == "<None>"

\* '%s' % v
Str(v) == IF v = None THEN "None" ELSE v

\* truth value of an api key: None and '' are false.
Truthy(v) == v # None /\ v # ""

\* values the service puts in the envelope's data field; for login, the issued key.
Data == {None, "", "KEY1", "KEY2"}

\* the api_key argument callers pass.
ExplicitKeys == {None, "", "KEY1"}

ErrorCodes == {None, "AUTH_EXPIRED", "RATE_LIMIT"}

ErrorMessages == {None, "Rate limit exceeded"}

Envelopes == [data : Data, errorCode : ErrorCodes, errorMessage : ErrorMessages]

QueryOps == {"dataset_filters", "download_options", "dataset_download_options",
             "download_request", "dataset_search", "scene_metadata", "scene_search"}

\* the url each operation posts to, relative to USGS_API.
Url(o) ==
    CASE o = "dataset_filters" -> "/dataset-filters"
      [] o = "download_options" -> "/download-options"
      [] o = "dataset_download_options" -> "/dataset-download-options"
      [] o = "download_request" -> "/download-request"
      [] o = "dataset_search" -> "/dataset-search"
      [] o = "scene_metadata" -> "/scene-metadata"
      [] o = "scene_search" -> "/scene-search"
      [] o = "login" -> "/login-token"
      [] o = "logout" -> "/logout"

----------------------------------------------------------------------------
(* The credential file *)

\* no file at TMPFILE.
Absent == [kind |-> "absent", apiKey |-> None, created |-> 0]

\* a dump that leaves the apiKey field null.
RecordWithoutKey(k, t) == [kind |-> "json", apiKey |-> None, created |-> t]

\* what login's json.dump leaves at TMPFILE.
Record(k, t) == [kind |-> "json", apiKey |-> k, created |-> t]

\* a file at TMPFILE that json.load cannot parse.
Garbage == [kind |-> "garbage", apiKey |-> None, created |-> 0]

\* a file at TMPFILE that parses to an object without the apiKey field.
NoKey == [kind |-> "nokey", apiKey |-> None, created |-> 0]

\* os.path.exists(TMPFILE)
Exists(f) == f.kind # "absent"

\* a write that keeps a file already there (exclusive creation).
PersistIfAbsent(f, k, t) == IF Exists(f) THEN f ELSE Record(k, t)

\* `with open(TMPFILE, "w") as f: json.dump(...)`: the file f truncated and
\* rewritten.
Persist(f, k, t) == Record(k, t)

----------------------------------------------------------------------------
(* Outcomes of a call: a value returned, or an exception raised *)

NoResult == [kind |-> "none", exc |-> "", message |-> "", value |-> <<>>]

\* `return response`
Returned(env) == [kind |-> "return", exc |-> "", message |-> "", value |-> <<env>>]

\* a bare `return` (None)
ReturnedNone == [kind |-> "return", exc |-> "", message |-> "", value |-> <<>>]

Raised(e, m) == [kind |-> "raise", exc |-> e, message |-> m, value |-> <<>>]

----------------------------------------------------------------------------
(* _get_api_key, _check_for_usgs_error, _create_session *)

\* _get_api_key's outcome: the key returned and whether the file was opened.
Key(k, c) == [exc |-> "", value |-> k, consulted |-> c]

\* _get_api_key's outcome when reading the file raises e.
KeyRaised(e) == [exc |-> e, value |-> None, consulted |-> TRUE]

\* a resolution that takes a file it cannot read for no credential.
get_api_key_lenient(key, f) ==
    IF key = None /\ Exists(f)
    THEN IF f.kind = "json" THEN Key(f.apiKey, TRUE) ELSE Key(None, TRUE)
    ELSE Key(key, FALSE)

\* a resolution that lets a stored record override the caller's key.
get_api_key_stored_first(key, f) ==
    IF Exists(f)
    THEN Key(f.apiKey, TRUE)
    ELSE Key(key, FALSE)

_get_api_key(key, f) ==
    IF key = None /\ Exists(f)
    THEN CASE f.kind = "garbage" -> KeyRaised("JSONDecodeError")
           [] f.kind = "nokey" -> KeyRaised("KeyError")
           [] OTHER -> Key(f.apiKey, TRUE)
    ELSE Key(key, FALSE)

AuthExpiredMessage == "API key has expired. Try logging out and logging back in."

\* a classifier that takes a non-null errorMessage for an error.
check_for_usgs_error_by_message(data) ==
    IF data.errorCode = None /\ data.errorMessage = None
    THEN NoResult
    ELSE IF data.errorCode = "AUTH_EXPIRED"
         THEN Raised("USGSAuthExpiredError", AuthExpiredMessage)
         ELSE Raised("USGSError",
                     Str(data.errorCode) \o ": " \o Str(data.errorMessage))

\* a classifier that tells AUTH_EXPIRED apart by the message, not the code.
check_for_usgs_error_no_auth(data) ==
    IF data.errorCode = None
    THEN NoResult
    ELSE IF data.errorMessage = "AUTH_EXPIRED"
         THEN Raised("USGSAuthExpiredError", AuthExpiredMessage)
         ELSE Raised("USGSError",
                     Str(data.errorCode) \o ": " \o Str(data.errorMessage))

\* a classifier whose generic failure carries the code alone.
check_for_usgs_error_code_only(data) ==
    IF data.errorCode = None
    THEN NoResult
    ELSE IF data.errorCode = "AUTH_EXPIRED"
         THEN Raised("USGSAuthExpiredError", AuthExpiredMessage)
         ELSE Raised("USGSError", Str(data.errorCode))

\* NoResult when the call returns normally, otherwise the exception raised.
_check_for_usgs_error(data) ==
    IF data.errorCode = None
    THEN NoResult
    ELSE IF data.errorCode = "AUTH_EXPIRED"
         THEN Raised("USGSAuthExpiredError", AuthExpiredMessage)
         ELSE Raised("USGSError",
                     Str(data.errorCode) \o ": " \o Str(data.errorMessage))

UserAgent == "Python usgs v{}"

\* Retry(total=...)
RetryTotal == 5

\* headers that carry the token whenever the key is not None, the empty key too.
HeadersUnlessNone(k) ==
    [n \in {"User-Agent"} \cup (IF k # None THEN {"X-Auth-Token"} ELSE {}) |->
        IF n = "User-Agent" THEN UserAgent ELSE k]

\* the headers dictionary _create_session builds for an effective key k.
Headers(k) ==
    [n \in {"User-Agent"} \cup (IF Truthy(k) THEN {"X-Auth-Token"} ELSE {}) |->
        IF n = "User-Agent" THEN UserAgent ELSE k]

NoHeaders == [n \in {} |-> ""]

NoSession == [open |-> FALSE, headers |-> NoHeaders, total |-> 0]

\* a session on which the Retry object was never mounted.
create_session_unmounted(key, f) ==
    LET k == _get_api_key(key, f)
    IN  [exc |-> k.exc,
         consulted |-> k.consulted,
         session |-> [open |-> TRUE, headers |-> Headers(k.value), total |-> 0]]

_create_session(key, f) ==
    LET k == _get_api_key(key, f)
    IN  [exc |-> k.exc,
         consulted |-> k.consulted,
         session |-> [open |-> TRUE, headers |-> Headers(k.value),
                      total |-> RetryTotal]]

NoRequest == [url |-> "", headers |-> NoHeaders, payload |-> FALSE]

\* no key of the service is in the credential file.
NotIssued == [key |-> None, loggedOut |-> FALSE]

\* the service acts on a /logout request carrying headers h: it deactivates
\* the key in X-Auth-Token ("deactivating ... the stored API key").
LoggedOut(i, h) ==
    IF "X-Auth-Token" \in DOMAIN h /\ h["X-Auth-Token"] = i.key
    THEN [i EXCEPT !.loggedOut = TRUE]
    ELSE i

----------------------------------------------------------------------------
(* Initial state: nobody logged in, every caller idle *)

Init ==
    /\ tmpfile = Absent
    /\ now = 0
    /\ pc = [p \in Procs |-> "idle"]
    /\ op = [p \in Procs |-> ""]
    /\ explicit = [p \in Procs |-> None]
    /\ save = [p \in Procs |-> FALSE]
    /\ api_key = [p \in Procs |-> None]
    /\ session = [p \in Procs |-> NoSession]
    /\ created = [p \in Procs |-> 0]
    /\ response = [p \in Procs |-> <<>>]
    /\ result = [p \in Procs |-> NoResult]
    /\ before = [p \in Procs |-> Absent]
    /\ consulted = [p \in Procs |-> FALSE]
    /\ sessions = [p \in Procs |-> 0]
    /\ posts = [p \in Procs |-> 0]
    /\ request = [p \in Procs |-> NoRequest]
    /\ attempts = [p \in Procs |-> 0]
    /\ issued = NotIssued

\* no invocation is in progress (the service is called one operation at a time).
Sequential == \A q \in Procs : pc[q] = "idle"

----------------------------------------------------------------------------
(* Entering an operation *)

\* a query operation up to and including `api_key = _get_api_key(api_key)`;
\* an exception raised there ends the operation.
QueryCall(p, o, k) ==
    /\ pc[p] = "idle"
    /\ LET r == _get_api_key(k, tmpfile)
       IN  /\ api_key' = [api_key EXCEPT ![p] = r.value]
           /\ consulted' = [consulted EXCEPT ![p] = r.consulted]
           /\ IF r.exc # ""
              THEN /\ result' = [result EXCEPT ![p] = Raised(r.exc, "")]
                   /\ pc' = [pc EXCEPT ![p] = "done"]
              ELSE /\ pc' = [pc EXCEPT ![p] = "session"]
                   /\ UNCHANGED result
    /\ op' = [op EXCEPT ![p] = o]
    /\ explicit' = [explicit EXCEPT ![p] = k]
    /\ before' = [before EXCEPT ![p] = tmpfile]
    /\ UNCHANGED <<tmpfile, now, save, session, created, response,
                   sessions, posts, request, attempts,
                   issued>>

\* login up to `with _create_session(api_key=None)`.
LoginCall(p, s) ==
    /\ pc[p] = "idle"
    /\ op' = [op EXCEPT ![p] = "login"]
    /\ save' = [save EXCEPT ![p] = s]
    /\ before' = [before EXCEPT ![p] = tmpfile]
    /\ pc' = [pc EXCEPT ![p] = "session"]
    /\ UNCHANGED <<tmpfile, now, explicit, api_key, session, created, response,
                   result, consulted, sessions, posts, request, attempts,
                   issued>>

\* a logout that posts whether or not a record is stored.
LogoutCallAlwaysPosts(p) ==
    /\ pc[p] = "idle"
    /\ op' = [op EXCEPT ![p] = "logout"]
    /\ before' = [before EXCEPT ![p] = tmpfile]
    /\ pc' = [pc EXCEPT ![p] = "session"]
    /\ UNCHANGED <<tmpfile, now, explicit, save, api_key, session, created,
                   response, result, consulted, sessions, posts, request, attempts,
                   issued>>

\* logout up to `with _create_session(api_key=None)`, or its early return.
LogoutCall(p) ==
    /\ pc[p] = "idle"
    /\ op' = [op EXCEPT ![p] = "logout"]
    /\ before' = [before EXCEPT ![p] = tmpfile]
    /\ IF ~Exists(tmpfile)
       THEN /\ result' = [result EXCEPT ![p] = ReturnedNone]
            /\ pc' = [pc EXCEPT ![p] = "done"]
       ELSE /\ pc' = [pc EXCEPT ![p] = "session"]
            /\ UNCHANGED result
    /\ UNCHANGED <<tmpfile, now, explicit, save, api_key, session, created,
                   response, consulted, sessions, posts, request, attempts,
                   issued>>

----------------------------------------------------------------------------
(* The request/response exchange, common to every operation *)

\* `_create_session(api_key)`: login and logout pass None.  An exception
\* raised by its _get_api_key ends the operation before a session exists.
CreateSession(p) ==
    /\ pc[p] = "session"
    /\ LET s == _create_session(api_key[p], tmpfile)
       IN  /\ consulted' = [consulted EXCEPT ![p] = @ \/ s.consulted]
           /\ IF s.exc # ""
              THEN /\ result' = [result EXCEPT ![p] = Raised(s.exc, "")]
                   /\ pc' = [pc EXCEPT ![p] = "done"]
                   /\ UNCHANGED <<session, sessions>>
              ELSE /\ session' = [session EXCEPT ![p] = s.session]
                   /\ sessions' = [sessions EXCEPT ![p] = @ + 1]
                   /\ pc' = [pc EXCEPT ![p] = "post"]
                   /\ UNCHANGED result
    /\ UNCHANGED <<tmpfile, now, op, explicit, save, api_key, created, response,
                   before, posts, request, attempts,
                   issued>>

\* `r = session.post(url, payload)`: the first attempt goes out.  login reads
\* the clock just before; logout posts no payload.
Post(p) ==
    /\ pc[p] = "post"
    /\ created' = [created EXCEPT ![p] = IF op[p] = "login" THEN now ELSE @]
    /\ posts' = [posts EXCEPT ![p] = @ + 1]
    /\ request' = [request EXCEPT ![p] =
                      [url |-> Url(op[p]), headers |-> session[p].headers,
                       payload |-> op[p] # "logout"]]
    /\ attempts' = [attempts EXCEPT ![p] = 1]
    /\ pc' = [pc EXCEPT ![p] = "wait"]
    /\ UNCHANGED <<tmpfile, now, op, explicit, save, api_key, session, response,
                   result, before, consulted, sessions,
                   issued>>

\* how an attempt can fail: "connect", the request never reached the service;
\* "read", the request went out and no answer came back.
FailureKinds == {"connect", "read"}

MaxRetriesMessage == "Max retries exceeded"

AbortedMessage == "Connection aborted"

\* an attempt fails in the transport.  The adapter hands the failure to the
\* Retry object mounted on the session: a failure to connect is retried while
\* the object's total is not used up; a failure after the request was sent is
\* not retried for a POST.  Either way the failure then reaches the caller.
\* A /logout request that went out may have been acted on by the service
\* before the connection was lost.
TransportFailure(p, kind) ==
    /\ pc[p] = "wait"
    /\ IF kind = "read" \/ session[p].total = 0
       THEN /\ result' = [result EXCEPT ![p] =
                             Raised("ConnectionError",
                                    IF kind = "read" THEN AbortedMessage
                                                     ELSE MaxRetriesMessage)]
            /\ session' = [session EXCEPT ![p].open = FALSE]
            /\ pc' = [pc EXCEPT ![p] = "done"]
            /\ UNCHANGED attempts
       ELSE /\ session' = [session EXCEPT ![p].total = @ - 1]
            /\ attempts' = [attempts EXCEPT ![p] = @ + 1]
            /\ UNCHANGED <<result, pc>>
    /\ IF kind = "read" /\ op[p] = "logout"
       THEN \E acted \in BOOLEAN :
                issued' = IF acted THEN LoggedOut(issued, request[p].headers)
                                   ELSE issued
       ELSE UNCHANGED issued
    /\ UNCHANGED <<tmpfile, now, op, explicit, save, api_key, created, response,
                   before, consulted, sessions, posts, request>>

\* the service answers with an envelope; the `with` block closes the session
\* and `response = r.json()` parses it.  A /logout answered without error is
\* one the service acted on.
Respond(p, env) ==
    /\ pc[p] = "wait"
    /\ issued' = IF op[p] = "logout" /\ env.errorCode = None
                 THEN LoggedOut(issued, request[p].headers)
                 ELSE issued
    /\ response' = [response EXCEPT ![p] = <<env>>]
    /\ session' = [session EXCEPT ![p].open = FALSE]
    /\ pc' = [pc EXCEPT ![p] = "classify"]
    /\ UNCHANGED <<tmpfile, now, op, explicit, save, api_key, created, result,
                   before, consulted, sessions, posts, request, attempts>>

----------------------------------------------------------------------------
(* After the response: classification and each operation's tail *)

\* a query operation that posts once more when the service reports an error.
QueryFinishRetries(p) ==
    /\ pc[p] = "classify"
    /\ op[p] \in QueryOps
    /\ LET c == _check_for_usgs_error(response[p][1])
       IN  IF c.kind = "raise" /\ posts[p] < 2
           THEN /\ pc' = [pc EXCEPT ![p] = "post"]
                /\ response' = [response EXCEPT ![p] = <<>>]
                /\ UNCHANGED result
           ELSE /\ result' = [result EXCEPT ![p] =
                                 IF c.kind = "raise" THEN c
                                 ELSE Returned(response[p][1])]
                /\ pc' = [pc EXCEPT ![p] = "done"]
                /\ UNCHANGED response
    /\ UNCHANGED <<tmpfile, now, op, explicit, save, api_key, session, created,
                   before, consulted, sessions, posts, request, attempts, issued>>

\* a query operation that deletes the credential file when the key has expired.
QueryFinishForgetsExpired(p) ==
    /\ pc[p] = "classify"
    /\ op[p] \in QueryOps
    /\ LET c == _check_for_usgs_error(response[p][1])
       IN  /\ result' = [result EXCEPT ![p] =
                             IF c.kind = "raise" THEN c
                             ELSE Returned(response[p][1])]
           /\ tmpfile' = IF c.exc = "USGSAuthExpiredError" THEN Absent ELSE tmpfile
    /\ pc' = [pc EXCEPT ![p] = "done"]
    /\ UNCHANGED <<now, op, explicit, save, api_key, session, created, response,
                   before, consulted, sessions, posts, request, attempts, issued>>

\* `_check_for_usgs_error(response); return response` of a query operation.
QueryFinish(p) ==
    /\ pc[p] = "classify"
    /\ op[p] \in QueryOps
    /\ LET c == _check_for_usgs_error(response[p][1])
       IN  result' = [result EXCEPT ![p] =
                         IF c.kind = "raise" THEN c ELSE Returned(response[p][1])]
    /\ pc' = [pc EXCEPT ![p] = "done"]
    /\ UNCHANGED <<tmpfile, now, op, explicit, save, api_key, session, created,
                   response, before, consulted, sessions, posts, request,
                   attempts,
                   issued>>

\* a login that persists before looking at the key it was given.
LoginFinishPersistsFirst(p) ==
    /\ pc[p] = "classify"
    /\ op[p] = "login"
    /\ LET c == _check_for_usgs_error(response[p][1])
           key == response[p][1].data
       IN  IF c.kind = "raise"
           THEN /\ result' = [result EXCEPT ![p] = c]
                /\ UNCHANGED <<tmpfile, issued>>
           ELSE /\ tmpfile' = IF save[p] THEN Persist(tmpfile, key, created[p])
                                       ELSE tmpfile
                /\ issued' = IF save[p] THEN [key |-> key, loggedOut |-> FALSE]
                                      ELSE issued
                /\ result' = [result EXCEPT ![p] =
                                 IF key = None
                                 THEN Raised("USGSError",
                                             Str(response[p][1].errorMessage))
                                 ELSE Returned(response[p][1])]
    /\ pc' = [pc EXCEPT ![p] = "done"]
    /\ UNCHANGED <<now, op, explicit, save, api_key, session, created, response,
                   before, consulted, sessions, posts, request, attempts>>

\* a login that persists whatever `save` says.
LoginFinishIgnoresSave(p) ==
    /\ pc[p] = "classify"
    /\ op[p] = "login"
    /\ LET c == _check_for_usgs_error(response[p][1])
           key == response[p][1].data
       IN  IF c.kind = "raise"
           THEN /\ result' = [result EXCEPT ![p] = c]
                /\ UNCHANGED <<tmpfile, issued>>
           ELSE IF key = None
           THEN /\ result' = [result EXCEPT ![p] =
                                 Raised("USGSError", Str(response[p][1].errorMessage))]
                /\ UNCHANGED <<tmpfile, issued>>
           ELSE /\ tmpfile' = Persist(tmpfile, key, created[p])
                /\ issued' = [key |-> key, loggedOut |-> FALSE]
                /\ result' = [result EXCEPT ![p] = Returned(response[p][1])]
    /\ pc' = [pc EXCEPT ![p] = "done"]
    /\ UNCHANGED <<now, op, explicit, save, api_key, session, created, response,
                   before, consulted, sessions, posts, request, attempts>>

\* login from `_check_for_usgs_error(response)` to `return response`.
LoginFinish(p) ==
    /\ pc[p] = "classify"
    /\ op[p] = "login"
    /\ LET c == _check_for_usgs_error(response[p][1])
           key == response[p][1].data
       IN  IF c.kind = "raise"
           THEN /\ result' = [result EXCEPT ![p] = c]
                /\ UNCHANGED <<tmpfile, issued>>
           ELSE IF key = None
           THEN /\ result' = [result EXCEPT ![p] =
                                 Raised("USGSError", Str(response[p][1].errorMessage))]
                /\ UNCHANGED <<tmpfile, issued>>
           ELSE /\ tmpfile' = IF save[p] THEN Persist(tmpfile, key, created[p])
                                       ELSE tmpfile
                /\ issued' = IF save[p] THEN [key |-> key, loggedOut |-> FALSE]
                                      ELSE issued
                /\ result' = [result EXCEPT ![p] = Returned(response[p][1])]
    /\ pc' = [pc EXCEPT ![p] = "done"]
    /\ UNCHANGED <<now, op, explicit, save, api_key, session, created, response,
                   before, consulted, sessions, posts, request, attempts>>

\* a handler that suppresses nothing.
SuppressedNever(c) == FALSE

\* a handler that suppresses every classifier failure.
SuppressedAlways(c) == c.kind = "raise"

\* `except USGSAuthExpiredError: pass`: whether logout swallows failure c.
Suppressed(c) == c.kind = "raise" /\ c.exc = "USGSAuthExpiredError"

\* a logout that returns without removing the credential file.
LogoutFinishKeepsFile(p) ==
    /\ pc[p] = "classify"
    /\ op[p] = "logout"
    /\ LET c == _check_for_usgs_error(response[p][1])
       IN  result' = [result EXCEPT ![p] =
                         IF c.kind = "raise" /\ ~Suppressed(c)
                         THEN c ELSE Returned(response[p][1])]
    /\ pc' = [pc EXCEPT ![p] = "done"]
    /\ UNCHANGED <<tmpfile, issued, now, op, explicit, save, api_key, session,
                   created, response, before, consulted, sessions, posts,
                   request, attempts>>

\* logout from the try block to `return response`.
LogoutFinish(p) ==
    /\ pc[p] = "classify"
    /\ op[p] = "logout"
    /\ LET c == _check_for_usgs_error(response[p][1])
       IN  IF c.kind = "raise" /\ ~Suppressed(c)
           THEN /\ result' = [result EXCEPT ![p] = c]
                /\ UNCHANGED <<tmpfile, issued>>
           ELSE IF Exists(tmpfile)
           THEN /\ tmpfile' = Absent
                /\ issued' = NotIssued
                /\ result' = [result EXCEPT ![p] = Returned(response[p][1])]
           ELSE /\ result' = [result EXCEPT ![p] = Raised("FileNotFoundError", "")]
                /\ UNCHANGED <<tmpfile, issued>>
    /\ pc' = [pc EXCEPT ![p] = "done"]
    /\ UNCHANGED <<now, op, explicit, save, api_key, session, created, response,
                   before, consulted, sessions, posts, request, attempts>>

\* the caller takes the outcome; the invocation's frame is gone.
Return(p) ==
    /\ pc[p] = "done"
    /\ pc' = [pc EXCEPT ![p] = "idle"]
    /\ op' = [op EXCEPT ![p] = ""]
    /\ explicit' = [explicit EXCEPT ![p] = None]
    /\ save' = [save EXCEPT ![p] = FALSE]
    /\ api_key' = [api_key EXCEPT ![p] = None]
    /\ session' = [session EXCEPT ![p] = NoSession]
    /\ created' = [created EXCEPT ![p] = 0]
    /\ response' = [response EXCEPT ![p] = <<>>]
    /\ result' = [result EXCEPT ![p] = NoResult]
    /\ before' = [before EXCEPT ![p] = Absent]
    /\ consulted' = [consulted EXCEPT ![p] = FALSE]
    /\ sessions' = [sessions EXCEPT ![p] = 0]
    /\ posts' = [posts EXCEPT ![p] = 0]
    /\ request' = [request EXCEPT ![p] = NoRequest]
    /\ attempts' = [attempts EXCEPT ![p] = 0]
    /\ UNCHANGED <<tmpfile, now, issued>>

\* time passes.
Tick ==
    /\ now < MaxTime
    /\ now' = now + 1
    /\ UNCHANGED <<tmpfile, pc, op, explicit, save, api_key, session, created,
                   response, result, before, consulted, sessions, posts, request,
                   attempts,
                   issued>>

----------------------------------------------------------------------------
(* One operation at a time *)

Next ==
    \/ \E p \in Procs, o \in QueryOps, k \in ExplicitKeys :
           Sequential /\ QueryCall(p, o, k)
    \/ \E p \in Procs, s \in BOOLEAN : Sequential /\ LoginCall(p, s)
    \/ \E p \in Procs : Sequential /\ LogoutCall(p)
    \/ \E p \in Procs : CreateSession(p)
    \/ \E p \in Procs : Post(p)
    \/ \E p \in Procs, kind \in FailureKinds : TransportFailure(p, kind)
    \/ \E p \in Procs, env \in Envelopes : Respond(p, env)
    \/ \E p \in Procs : QueryFinish(p)
    \/ \E p \in Procs : LoginFinish(p)
    \/ \E p \in Procs : LogoutFinish(p)
    \/ \E p \in Procs : Return(p)
    \/ Tick

Spec == Init /\ [][Next]_vars

----------------------------------------------------------------------------
(* The same, with a credential file that something else may damage *)

\* between two calls the credential file is damaged from outside: its content
\* becomes c.
Corrupt(c) ==
    /\ Sequential
    /\ tmpfile # c
    /\ tmpfile' = c
    /\ UNCHANGED <<now, pc, op, explicit, save, api_key, session, created,
                   response, result, before, consulted, sessions, posts, request,
                   attempts,
                   issued>>

NextCorrupt ==
    \/ Next
    \/ \E c \in {Garbage, NoKey} : Corrupt(c)

SpecCorrupt == Init /\ [][NextCorrupt]_vars

----------------------------------------------------------------------------
(* login and logout called from independent processes: nothing keeps one   *)
(* caller from entering while another is between two of its steps.  The    *)
(* transport is taken to deliver, and the service to answer with one of a  *)
(* few envelopes: the races of interest are those on the credential file.  *)

ConcEnvelopes ==
    {e \in Envelopes : e.errorMessage = None /\ e.data \in {"KEY1", "KEY2"}}

NextConc ==
    \/ \E p \in Procs, s \in BOOLEAN : LoginCall(p, s)
    \/ \E p \in Procs : LogoutCall(p)
    \/ \E p \in Procs : CreateSession(p)
    \/ \E p \in Procs : Post(p)
    \/ \E p \in Procs, env \in ConcEnvelopes : Respond(p, env)
    \/ \E p \in Procs : LoginFinish(p)
    \/ \E p \in Procs : LogoutFinish(p)
    \/ \E p \in Procs : Return(p)

SpecConc == Init /\ [][NextConc]_vars

----------------------------------------------------------------------------
(* One operation at a time, with the progress the program itself makes: a  *)
(* caller inside an operation takes its next step.  Nothing is assumed of  *)
(* the transport: session.post is called without a timeout.                *)

Progress ==
    \A p \in Procs :
        /\ WF_vars(CreateSession(p))
        /\ WF_vars(Post(p))
        /\ WF_vars(QueryFinish(p))
        /\ WF_vars(LoginFinish(p))
        /\ WF_vars(LogoutFinish(p))

SpecLive == Init /\ [][Next]_vars /\ Progress

----------------------------------------------------------------------------
(* Properties *)

\* caller p's invocation is over and its outcome is in result[p].
Done(p) == pc[p] = "done"

\* the service answered caller p's post with an envelope.
Answered(p) == response[p] # <<>>

\* the credential file has not changed since p was invoked.
StoreUntouched(p) == tmpfile = before[p]

\* C1: when the service answers a query operation with an envelope whose
\* errorCode is null, classification raises nothing and the operation returns
\* that envelope unchanged, data included.
C1_NullErrorCodeReturnsEnvelope ==
    \A p \in Procs :
        (Done(p) /\ op[p] \in QueryOps /\ Answered(p)
                 /\ response[p][1].errorCode = None)
        => /\ result[p].kind = "return"
           /\ result[p].value = response[p]
           /\ result[p].value[1].data = response[p][1].data

C1_Witness ==
    \E p \in Procs :
        /\ Done(p) /\ op[p] = "scene_search" /\ Answered(p)
        /\ response[p][1].errorCode = None
        /\ response[p][1].errorMessage # None
        /\ response[p][1].data = "KEY2"

\* C2: an envelope with errorCode "AUTH_EXPIRED", whatever its errorMessage,
\* makes every operation other than logout raise USGSAuthExpiredError: never
\* USGSError, never a returned value.
C2_AuthExpiredRaised ==
    \A p \in Procs :
        (Done(p) /\ op[p] # "logout" /\ Answered(p)
                 /\ response[p][1].errorCode = "AUTH_EXPIRED")
        => /\ result[p].kind = "raise"
           /\ result[p].exc = "USGSAuthExpiredError"
           /\ result[p].value = <<>>

C2_Witness ==
    \E p \in Procs :
        /\ Done(p) /\ op[p] = "login" /\ Answered(p)
        /\ response[p][1].errorCode = "AUTH_EXPIRED"
        /\ response[p][1].errorMessage # None
        /\ result[p].exc = "USGSAuthExpiredError"

\* C3: an envelope with a non-null errorCode other than "AUTH_EXPIRED" makes
\* the operation raise USGSError whose text is "<errorCode>: <errorMessage>",
\* and nothing is returned.
C3_GenericErrorCarriesCodeAndMessage ==
    \A p \in Procs :
        (Done(p) /\ Answered(p)
                 /\ response[p][1].errorCode \notin {None, "AUTH_EXPIRED"})
        => /\ result[p].kind = "raise"
           /\ result[p].exc = "USGSError"
           /\ result[p].message =
                  response[p][1].errorCode \o ": " \o Str(response[p][1].errorMessage)
           /\ result[p].value = <<>>

C3_Witness ==
    \E p \in Procs :
        /\ Done(p) /\ op[p] = "download_request" /\ Answered(p)
        /\ response[p][1].errorCode = "RATE_LIMIT"
        /\ result[p].message = "RATE_LIMIT: Rate limit exceeded"

\* C4: inside a query operation the resolved api_key is the explicit key E when
\* one was passed, else the stored record's apiKey when a record exists, else
\* None; and with E passed the credential file is never opened.
C4_ResolutionPrecedence ==
    \A p \in Procs :
        (op[p] \in QueryOps /\ pc[p] # "idle")
        => /\ explicit[p] # None => api_key[p] = explicit[p] /\ ~consulted[p]
           /\ (explicit[p] = None /\ Exists(before[p]))
                  => api_key[p] = before[p].apiKey
           /\ (explicit[p] = None /\ ~Exists(before[p])) => api_key[p] = None

C4_Witness ==
    \E p \in Procs :
        /\ op[p] \in QueryOps /\ pc[p] = "post"
        /\ explicit[p] = "KEY1"
        /\ Exists(before[p]) /\ before[p].apiKey = "KEY2"
        /\ api_key[p] = "KEY1"

\* C4 (stored-key case reached): no explicit key, a record stored.
C4_WitnessStored ==
    \E p \in Procs :
        /\ op[p] \in QueryOps /\ pc[p] = "post"
        /\ explicit[p] = None
        /\ Exists(before[p]) /\ api_key[p] = "KEY2"

\* the step in which p's login writes the credential file.
Persisted(p) ==
    /\ pc[p] = "classify" /\ op[p] = "login" /\ save[p]
    /\ pc'[p] = "done" /\ result'[p].kind = "return"

\* the step in which p's logout removes the credential file.
Cleared(p) ==
    /\ pc[p] = "classify" /\ op[p] = "logout"
    /\ pc'[p] = "done" /\ result'[p].kind = "return"

\* what an operation called with no explicit key resolves from file f.
Resolve(f) == _get_api_key(None, f).value

\* C5: a step that persists key K (over any record already there) leaves a
\* store that resolves to K; a step that clears leaves one that resolves to
\* None; no other step changes what the store resolves to.  So resolution
\* always gives the most recent persist not followed by a clear.
C5_StoreRoundTrip ==
    [][ /\ \A p \in Procs :
               Persisted(p) => Resolve(tmpfile') = response[p][1].data
        /\ \A p \in Procs : Cleared(p) => Resolve(tmpfile') = None
        /\ (\A p \in Procs : ~Persisted(p) /\ ~Cleared(p))
               => Resolve(tmpfile') = Resolve(tmpfile) ]_vars

C5_Witness ==
    \E p \in Procs :
        /\ Done(p) /\ op[p] = "login" /\ save[p] /\ result[p].kind = "return"
        /\ Exists(before[p]) /\ before[p].apiKey = "KEY1"
        /\ response[p][1].data = "KEY2"
        /\ Resolve(tmpfile) = "KEY2"

\* C6: a login with save=True answered by an envelope with errorCode null and
\* data K (not null) leaves the record {apiKey: K, created: <its timestamp>},
\* which resolves to K, and returns the envelope.
C6_LoginSavePersistsKey ==
    \A p \in Procs :
        (Done(p) /\ op[p] = "login" /\ save[p] /\ Answered(p)
                 /\ response[p][1].errorCode = None
                 /\ response[p][1].data # None)
        => /\ Exists(tmpfile)
           /\ tmpfile.apiKey = response[p][1].data
           /\ tmpfile.created = created[p]
           /\ Resolve(tmpfile) = response[p][1].data
           /\ result[p] = Returned(response[p][1])

C6_Witness ==
    \E p \in Procs :
        /\ Done(p) /\ op[p] = "login" /\ save[p] /\ Answered(p)
        /\ response[p][1].errorCode = None
        /\ response[p][1].data = "KEY1"
        /\ ~Exists(before[p])
        /\ tmpfile.apiKey = "KEY1"

\* C7: a logout invoked with no credential file returns None at once: it
\* creates no session, posts nothing and leaves the store as it was.
C7_LogoutWithoutRecordIsNoOp ==
    \A p \in Procs :
        (op[p] = "logout" /\ ~Exists(before[p]))
        => /\ Done(p)
           /\ result[p] = ReturnedNone
           /\ sessions[p] = 0
           /\ posts[p] = 0
           /\ request[p] = NoRequest
           /\ StoreUntouched(p)

C7_Witness ==
    \E p \in Procs :
        /\ Done(p) /\ op[p] = "logout" /\ ~Exists(before[p])
        /\ result[p] = ReturnedNone

\* C8: a logout with a stored credential that the service answers with
\* AUTH_EXPIRED raises nothing: it removes the credential file and returns
\* the envelope.
C8_LogoutSuppressesAuthExpired ==
    \A p \in Procs :
        (Done(p) /\ op[p] = "logout" /\ Exists(before[p]) /\ Answered(p)
                 /\ response[p][1].errorCode = "AUTH_EXPIRED")
        => /\ result[p] = Returned(response[p][1])
           /\ ~Exists(tmpfile)

C8_Witness ==
    \E p \in Procs :
        /\ Done(p) /\ op[p] = "logout" /\ Exists(before[p]) /\ Answered(p)
        /\ response[p][1].errorCode = "AUTH_EXPIRED"
        /\ before[p].apiKey = "KEY1"
        /\ result[p].kind = "return"

\* C9 as claimed: once logout has classified the response, the record is
\* absent when logout finishes, whatever the errorCode.
C9_LogoutAlwaysClears ==
    \A p \in Procs :
        (Done(p) /\ op[p] = "logout" /\ Answered(p)) => ~Exists(tmpfile)

\* C9 amended: the record is absent when logout finishes if the errorCode is
\* null or "AUTH_EXPIRED"; for any other code logout raises USGSError and the
\* record stays as it was.
C9_LogoutClearsUnlessGenericError ==
    \A p \in Procs :
        (Done(p) /\ op[p] = "logout" /\ Answered(p))
        => IF response[p][1].errorCode \in {None, "AUTH_EXPIRED"}
           THEN ~Exists(tmpfile) /\ result[p].kind = "return"
           ELSE /\ Exists(tmpfile) /\ StoreUntouched(p)
                /\ result[p].kind = "raise" /\ result[p].exc = "USGSError"

C9_Witness ==
    \E p \in Procs :
        /\ Done(p) /\ op[p] = "logout" /\ Answered(p)
        /\ response[p][1].errorCode = "RATE_LIMIT"
        /\ Exists(tmpfile)
        /\ result[p].exc = "USGSError"

\* C10 as claimed: whatever the credential store holds, the request login
\* posts carries no X-Auth-Token header.
C10_LoginSendsNoAuthHeader ==
    \A p \in Procs :
        (op[p] = "login" /\ posts[p] > 0)
        => "X-Auth-Token" \notin DOMAIN request[p].headers

C12_WitnessRead ==
    \E p \in Procs :
        /\ Done(p) /\ result[p] = Raised("ConnectionError", AbortedMessage)
        /\ attempts[p] = 3

\* the key an invocation is to use: the explicit one, else the stored one,
\* else None.
Effective(p) ==
    IF explicit[p] # None THEN explicit[p]
    ELSE IF Exists(before[p]) THEN before[p].apiKey
    ELSE None

\* C13: every session _create_session makes has the User-Agent header, and
\* has X-Auth-Token exactly when the effective key is neither None nor empty,
\* then equal to that key: an empty X-Auth-Token is never set.
C13_AuthHeaderIffKey ==
    \A p \in Procs :
        sessions[p] > 0
        => LET h == session[p].headers
           IN  /\ "User-Agent" \in DOMAIN h
               /\ h["User-Agent"] = UserAgent
               /\ ("X-Auth-Token" \in DOMAIN h) <=> (Effective(p) \notin {None, ""})
               /\ ("X-Auth-Token" \in DOMAIN h)
                      => h["X-Auth-Token"] = Effective(p) /\ h["X-Auth-Token"] # ""
               /\ posts[p] > 0 => request[p].headers = h

C13_Witness ==
    \E p \in Procs :
        /\ sessions[p] = 1 /\ posts[p] = 1
        /\ explicit[p] = ""
        /\ Exists(before[p]) /\ before[p].apiKey = "KEY1"
        /\ DOMAIN request[p].headers = {"User-Agent"}

\* C13 (a session that carries the stored key is reached too).
C13_WitnessToken ==
    \E p \in Procs :
        /\ sessions[p] = 1 /\ explicit[p] = None
        /\ "X-Auth-Token" \in DOMAIN session[p].headers
        /\ session[p].headers["X-Auth-Token"] = "KEY2"

\* the credential file holds something _get_api_key cannot use.
Unreadable(f) == f.kind \in {"garbage", "nokey"}

\* C14: an operation invoked without an explicit key resolves None without
\* raising when the credential file is absent; when the file is there but does
\* not parse, or lacks apiKey, the operation raises (JSONDecodeError, KeyError)
\* and neither creates a session nor posts anything.
C14_UnreadableRecordIsAnError ==
    \A p \in Procs :
        (op[p] # "" /\ explicit[p] = None)
        => /\ (~Exists(before[p]) /\ op[p] # "logout")
                  => /\ api_key[p] = None
                     /\ ~consulted[p]
                     /\ pc[p] # "session" => sessions[p] = 1
                     /\ result[p].exc \notin {"JSONDecodeError", "KeyError"}
           /\ Unreadable(before[p])
                  => /\ sessions[p] = 0
                     /\ posts[p] = 0
                     /\ request[p] = NoRequest
                     /\ pc[p] \in {"session", "done"}
                     /\ Done(p) => /\ result[p].kind = "raise"
                                   /\ result[p].exc =
                                          IF before[p].kind = "garbage"
                                          THEN "JSONDecodeError" ELSE "KeyError"

C14_Witness ==
    \E p \in Procs :
        /\ Done(p) /\ op[p] = "scene_metadata" /\ explicit[p] = None
        /\ before[p] = Garbage
        /\ result[p] = Raised("JSONDecodeError", "")
        /\ posts[p] = 0

\* C14 (the file without apiKey, met by login, is reached too).
C14_WitnessNoKey ==
    \E p \in Procs :
        /\ Done(p) /\ op[p] = "login" /\ before[p] = NoKey
        /\ result[p] = Raised("KeyError", "")

\* C14 (an absent file resolves to None and the request goes out).
C14_WitnessAbsent ==
    \E p \in Procs :
        /\ op[p] = "dataset_filters" /\ explicit[p] = None
        /\ ~Exists(before[p]) /\ posts[p] = 1 /\ api_key[p] = None

\* C15 as claimed: between operations, a credential file that exists holds the
\* key a saving login was issued, and the service has not logged that key out
\* since; a file that is absent resolves to None.
C15_RecordIsLiveKey ==
    Sequential
    => /\ Exists(tmpfile)
              => tmpfile.apiKey = issued.key /\ ~issued.loggedOut
       /\ ~Exists(tmpfile) => Resolve(tmpfile) = None

\* C15 amended: between operations, a credential file that exists holds the
\* key the last saving login was issued, and no logout has returned normally
\* since (a logout that posts and returns leaves no file); a file that is
\* absent resolves to None.  The service may have logged the key out all the
\* same: a logout whose answer is lost raises and leaves the file.
C15_RecordIsLastSavedKey ==
    /\ Exists(tmpfile) => tmpfile.kind = "json" /\ tmpfile.apiKey = issued.key
    /\ ~Exists(tmpfile) => Resolve(tmpfile) = None /\ issued = NotIssued
    /\ \A p \in Procs :
           (Done(p) /\ op[p] = "logout" /\ result[p].kind = "return")
           => ~Exists(tmpfile)
    /\ \A p \in Procs :
           (Done(p) /\ op[p] = "logout" /\ result[p].kind = "raise")
           => StoreUntouched(p) /\ Exists(tmpfile)

C15_Witness ==
    /\ Sequential
    /\ Exists(tmpfile) /\ tmpfile.apiKey = "KEY2"
    /\ issued = [key |-> "KEY2", loggedOut |-> TRUE]

\* one session and one post per invocation, and nothing more once the service
\* has answered.
OneExchange(p) ==
    /\ sessions[p] <= 1
    /\ posts[p] <= 1
    /\ posts[p] = 1 => sessions[p] = 1
    /\ Answered(p) => posts[p] = 1 /\ pc[p] \in {"classify", "done"}

\* C16 as claimed: every invocation that reaches the network makes exactly one
\* post, on the session it created, and an answer with a non-null errorCode
\* leads to a raised failure with no further post.
C16_ErrorAlwaysRaised ==
    \A p \in Procs :
        /\ OneExchange(p)
        /\ (Done(p) /\ Answered(p) /\ response[p][1].errorCode # None)
               => result[p].kind = "raise"

\* C16 amended: every invocation that reaches the network makes exactly one
\* post, on the session it created, and an answer with a non-null errorCode
\* leads with no further post to a raised failure, or, for logout answered
\* AUTH_EXPIRED, to logout's normal return.
C16_ErrorNeverRetried ==
    \A p \in Procs :
        /\ OneExchange(p)
        /\ (Done(p) /\ Answered(p) /\ response[p][1].errorCode # None)
               => IF op[p] = "logout" /\ response[p][1].errorCode = "AUTH_EXPIRED"
                  THEN result[p] = Returned(response[p][1])
                  ELSE result[p].kind = "raise"

C16_Witness ==
    \E p \in Procs :
        /\ Done(p) /\ op[p] = "download_options" /\ Answered(p)
        /\ response[p][1].errorCode = "RATE_LIMIT"
        /\ posts[p] = 1 /\ sessions[p] = 1 /\ attempts[p] = 2
        /\ result[p].kind = "raise"

\* C17: a query operation leaves the credential file as it found it, whatever
\* its outcome: an envelope returned, AUTH_EXPIRED or another error for the
\* stored key, a transport failure.
C17_QueriesLeaveStore ==
    \A p \in Procs :
        (op[p] \in QueryOps /\ pc[p] # "idle") => StoreUntouched(p)

C17_Witness ==
    \E p \in Procs :
        /\ Done(p) /\ op[p] = "scene_metadata" /\ explicit[p] = None
        /\ Answered(p) /\ response[p][1].errorCode = "AUTH_EXPIRED"
        /\ Exists(tmpfile) /\ tmpfile.apiKey = "KEY1"
        /\ request[p].headers["X-Auth-Token"] = "KEY1"

\* C18: login writes the credential file only when it succeeds with save=True.
\* A login that raises (transport failure, non-null errorCode, null data) and
\* any login with save=False leave the file as it was; until login's last step
\* the file is untouched.
C18_LoginWritesOnlyOnSavedSuccess ==
    \A p \in Procs :
        op[p] = "login"
        => /\ ~Done(p) => StoreUntouched(p)
           /\ (Done(p) /\ (result[p].kind = "raise" \/ ~save[p]))
                  => StoreUntouched(p)

C18_Witness ==
    \E p \in Procs :
        /\ Done(p) /\ op[p] = "login" /\ ~save[p]
        /\ result[p].kind = "return" /\ response[p][1].data = "KEY2"
        /\ Exists(tmpfile) /\ tmpfile.apiKey = "KEY1"

\* C18 (a failed saving login over a stored key is reached too).
C18_WitnessFailed ==
    \E p \in Procs :
        /\ Done(p) /\ op[p] = "login" /\ save[p]
        /\ result[p] = Raised("ConnectionError", MaxRetriesMessage)
        /\ Exists(tmpfile) /\ tmpfile.apiKey = "KEY1"

\* C19 as claimed: with logins and logouts interleaved, a logout that found a
\* credential file never fails because the file is gone by the time it
\* deletes it.
C19_LogoutToleratesMissingFile ==
    \A p \in Procs :
        (Done(p) /\ op[p] = "logout") => result[p].exc # "FileNotFoundError"

\* C20 as claimed: every invocation eventually ends, with an envelope returned
\* or a failure raised.
C20_EveryInvocationEnds ==
    \A p \in Procs : (pc[p] # "idle") ~> Done(p)

====
